---- MODULE Spec2Model ----
(***************************************************************************)
(* Model of pytext/metric_reporters/classification_metric_reporter.py:     *)
(* the classification metric reporters (single-label, multi-label, top-k), *)
(* their batch accumulation, compute_topk_classification_metrics and the   *)
(* model-selection metric extraction.                                      *)
(*                                                                         *)
(* Conventions.  An Optional value is a sequence: <<>> is None, <<v>> is   *)
(* the value v.  A float that is a quotient of counts is kept exactly as a *)
(* record [num, den].  A Python exception is the status "fault".           *)
(***************************************************************************)
EXTENDS Integers, Sequences, FiniteSets, TLC

VARIABLES
    pc,                  \* "config" before construction, "ready" after, "config_error"
    config,              \* the Config handed to from_config_and_label_names
    kind,                \* which reporter class: "single", "multi", "topk"
    label_names,         \* self.label_names
    model_select_metric, \* self.model_select_metric
    target_label,        \* self.target_label (Optional)
    is_memory_efficient, \* self.is_memory_efficient
    topk,                \* self.topk (top-k reporter)
    n_batches,           \* self.n_batches
    all_preds,           \* self.all_preds
    all_targets,         \* self.all_targets
    all_scores,          \* self.all_scores
    all_topk_preds,      \* self.all_topk_preds
    all_loss,            \* self.all_loss
    batch_size,          \* self.batch_size
    all_context,         \* self.all_context
    fed,                 \* history: the batches given to add_batch_stats since the last reset
    predictions,         \* the predictions argument of a direct compute_topk_classification_metrics call
    handed,              \* the prediction list calculate_metric last handed to the metric computation
    report,              \* the last metrics report returned (or the metrics argument of the extractor)
    selected             \* the outcome of the last get_model_select_metric call

vars == <<pc, config, kind, label_names, model_select_metric, target_label,
          is_memory_efficient, topk, n_batches, all_preds, all_targets,
          all_scores, all_topk_preds, all_loss, batch_size, all_context,
          fed, predictions, handed, report, selected>>

reporterVars == <<pc, config, kind, label_names, model_select_metric, target_label,
                  is_memory_efficient, topk>>

accumVars == <<n_batches, all_preds, all_targets, all_scores, all_topk_preds,
               all_loss, batch_size, all_context>>

-----------------------------------------------------------------------------
(* Bounds *)

MaxPredictions == 2
MaxBatches == 2
MaxExamples == 2

-----------------------------------------------------------------------------
(* Values *)

None == <<>>
Some(v) == <<v>>

Frac(n, d) == [num |-> n, den |-> d]

\* the label catalogue used by the reporters of the model
LabelCatalogue == <<"a", "b", "c">>

ACCURACY == "accuracy"
ROC_AUC == "roc_auc"
MCC == "mcc"
MACRO_F1 == "macro_f1"
LABEL_F1 == "label_f1"
LABEL_AVG_PRECISION == "label_avg_precision"
LABEL_ROC_AUC == "label_roc_auc"
NEGATIVE_LOSS == "negative_loss"

ComparableClassificationMetric ==
    {ACCURACY, ROC_AUC, MCC, MACRO_F1, LABEL_F1, LABEL_AVG_PRECISION,
     LABEL_ROC_AUC, NEGATIVE_LOSS}

EmptyMap == [l \in {} |-> 0]

NoReport == [status |-> "none"]
FaultReport == [status |-> "fault"]
NoSelection == [status |-> "none"]

-----------------------------------------------------------------------------
(* pytext.metrics helpers used by compute_topk_classification_metrics *)

safe_division(n, d) == IF d # 0 THEN Frac(n, d) ELSE Frac(0, 1)

ZeroConfusions == [TP |-> 0, FP |-> 0, FN |-> 0]

\* PerLabelConfusions.update(label, item, count)
Update(conf, label, item, count) ==
    [l \in DOMAIN conf \cup {label} |->
        LET old == IF l \in DOMAIN conf THEN conf[l] ELSE ZeroConfusions
        IN  IF l = label THEN [old EXCEPT ![item] = @ + count] ELSE old]

\* Confusions.compute_metrics: precision, recall, f1 with the counts
PRF1(c) ==
    [true_positives |-> c.TP, false_positives |-> c.FP, false_negatives |-> c.FN,
     precision |-> safe_division(c.TP, c.TP + c.FP),
     recall |-> safe_division(c.TP, c.TP + c.FN),
     f1 |-> safe_division(2 * c.TP, 2 * c.TP + c.FP + c.FN)]

FracAdd(a, b) == Frac(a.num * b.den + b.num * a.den, a.den * b.den)

\* the sum of the fractions m[l], l in S
RECURSIVE FracSum(_, _)
FracSum(S, m) ==
    IF S = {} THEN Frac(0, 1)
    ELSE LET x == CHOOSE y \in S : TRUE
         IN  FracAdd(m[x], FracSum(S \ {x}, m))

\* the unweighted mean of the fractions m[l] over the labels of m
FracMean(m) ==
    LET s == FracSum(DOMAIN m, m)
    IN  safe_division(s.num, s.den * Cardinality(DOMAIN m))

\* PerLabelConfusions.compute_metrics
compute_metrics(conf) ==
    LET per_label == [l \in DOMAIN conf |-> PRF1(conf[l])]
    IN  [per_label_scores |-> per_label,
         macro_scores |->
            [precision |-> FracMean([l \in DOMAIN conf |-> per_label[l].precision]),
             recall |-> FracMean([l \in DOMAIN conf |-> per_label[l].recall]),
             f1 |-> FracMean([l \in DOMAIN conf |-> per_label[l].f1])]]

-----------------------------------------------------------------------------
(* compute_topk_classification_metrics *)

LoopStart == [fault |-> FALSE, num_correct |-> 0, conf |-> EmptyMap]

\* list(map(label_names.__getitem__, topk))
PredictedLabels(p, names) == [j \in 1..Len(p.topk) |-> names[p.topk[j]]]

\* a hit only when the expected label is the first of the top-k list
IsHit_first_only(p, names) ==
    Len(p.topk) > 0 /\ PredictedLabels(p, names)[1] = names[p.label]

\* expected_label in predicted_labels
IsHit(p, names) ==
    \E j \in 1..Len(p.topk) : PredictedLabels(p, names)[j] = names[p.label]

\* the label a miss attributes its false positive to
FalsePositiveLabel(p, names) == PredictedLabels(p, names)[1]

RECURSIVE UpdateAll(_, _, _, _)
UpdateAll(conf, labels, i, item) ==
    IF i > Len(labels) THEN conf
    ELSE UpdateAll(Update(conf, labels[i], item, 1), labels, i + 1, item)

\* a miss charges a false positive to every element of the top-k list
TopkStep_fp_each(acc, p, names) ==
    IF IsHit(p, names)
    THEN [acc EXCEPT !.num_correct = @ + 1,
                     !.conf = Update(@, names[p.label], "TP", 1)]
    ELSE IF Len(p.topk) = 0
    THEN [acc EXCEPT !.fault = TRUE]
    ELSE [acc EXCEPT !.conf =
            UpdateAll(Update(@, names[p.label], "FN", 1),
                      PredictedLabels(p, names), 1, "FP")]

\* one iteration of the loop over the predictions
TopkStep(acc, p, names) ==
    IF IsHit(p, names)
    THEN [acc EXCEPT !.num_correct = @ + 1,
                     !.conf = Update(@, names[p.label], "TP", 1)]
    ELSE IF Len(p.topk) = 0
    THEN [acc EXCEPT !.fault = TRUE]   \* predicted_labels[0]: IndexError
    ELSE [acc EXCEPT !.conf =
            Update(Update(@, names[p.label], "FN", 1),
                   FalsePositiveLabel(p, names), "FP", 1)]

RECURSIVE TopkLoop(_, _, _, _)
TopkLoop(preds, names, i, acc) ==
    IF i > Len(preds) \/ acc.fault THEN acc
    ELSE TopkLoop(preds, names, i + 1, TopkStep(acc, preds[i], names))

TopkAccuracy(num_correct, n) == safe_division(num_correct, n)

compute_topk_classification_metrics(preds, names, loss) ==
    LET r == TopkLoop(preds, names, 1, LoopStart)
    IN  IF r.fault THEN FaultReport
        ELSE [status |-> "ok",
              accuracy |-> TopkAccuracy(r.num_correct, Len(preds)),
              macro_prf1_metrics |-> compute_metrics(r.conf),
              per_label_soft_scores |-> EmptyMap,
              mcc |-> None,
              roc_auc |-> None,
              loss |-> loss]

-----------------------------------------------------------------------------
(* Direct calls of compute_topk_classification_metrics on any prediction   *)
(* list: top-k lists of any length, with repeated indices or not.          *)

TopKLists ==
    {<<>>} \cup {<<i>> : i \in 1..Len(LabelCatalogue)}
           \cup {<<i, j>> : i, j \in 1..Len(LabelCatalogue)}

LabelTopKPrediction ==
    [scores : {<<>>}, topk : TopKLists, label : 1..Len(LabelCatalogue)]

PredictionLists ==
    UNION {[1..n -> LabelTopKPrediction] : n \in 0..MaxPredictions}

DefaultReporter ==
    /\ pc = "ready"
    /\ config = None
    /\ kind = "topk"
    /\ label_names = LabelCatalogue
    /\ model_select_metric = ACCURACY
    /\ target_label = None
    /\ is_memory_efficient = FALSE
    /\ topk = 1

EmptyAccumulation ==
    /\ n_batches = 0
    /\ all_preds = <<>>
    /\ all_targets = <<>>
    /\ all_scores = <<>>
    /\ all_topk_preds = <<>>
    /\ all_loss = <<>>
    /\ batch_size = <<>>
    /\ all_context = EmptyMap
    /\ fed = <<>>

InitTopK ==
    /\ DefaultReporter
    /\ EmptyAccumulation
    /\ predictions \in PredictionLists
    /\ handed = <<>>
    /\ report = NoReport
    /\ selected = NoSelection

ComputeTopK ==
    /\ report = NoReport
    /\ \E loss \in {None, Some(Frac(1, 2))} :
         report' = compute_topk_classification_metrics(predictions, label_names, loss)
    /\ UNCHANGED <<reporterVars, accumVars, fed, predictions, handed, selected>>

NextTopK == ComputeTopK

SpecTopK == InitTopK /\ [][NextTopK]_vars

-----------------------------------------------------------------------------
(* The batches the evaluation loop feeds to add_batch_stats *)

\* score rows over the three labels, no two scores of a row equal
ScoreRows == {<<3, 2, 1>>, <<1, 3, 2>>}

ExpectedChoices == {1, 3}

\* the index of the highest score of a row
ArgMax(row) == CHOOSE i \in DOMAIN row : \A j \in DOMAIN row : row[j] <= row[i]

\* one example of a single-label or top-k batch: the model's prediction is
\* the label of the highest score
Examples ==
    {[pred |-> ArgMax(s), target |-> t, scores |-> s] :
        s \in ScoreRows, t \in ExpectedChoices}

\* the same example in the multi-label encoding: an indicator vector of the
\* predicted labels, and the expected indices padded with -1
MultiLabel(e) ==
    [pred |-> [i \in DOMAIN e.scores |-> IF i = e.pred THEN 1 ELSE 0],
     target |-> <<e.target, -1>>,
     scores |-> e.scores]

Encoded(k, e) == IF k = "multi" THEN MultiLabel(e) ELSE e

LossChoices == {None, Some(2)}

\* the context of a batch: one text per example and a per-batch scalar
BatchContext(n) ==
    [text |-> [is_list |-> TRUE, val |-> [i \in 1..n |-> i]],
     stage |-> [is_list |-> FALSE, val |-> "eval"]]

\* m_input is a tuple of tensors whose first has one row per example, or a
\* generator of such tensors
MakeBatch(k, es, l, g) ==
    [preds |-> [i \in DOMAIN es |-> Encoded(k, es[i]).pred],
     targets |-> [i \in DOMAIN es |-> Encoded(k, es[i]).target],
     scores |-> [i \in DOMAIN es |-> es[i].scores],
     loss |-> l,
     m_input |-> [generator |-> g, first_len |-> Len(es)],
     context |-> BatchContext(Len(es))]

-----------------------------------------------------------------------------
(* MetricReporter (the base class): the accumulation helpers *)

\* MetricReporter.aggregate_data: extend all_data by the rows of new_batch
aggregate_data(all_data, new_batch) == all_data \o new_batch

\* MetricReporter.calculate_loss: the mean of the recorded batch losses
RECURSIVE SumSeq(_)
SumSeq(q) == IF q = <<>> THEN 0 ELSE Head(q) + SumSeq(Tail(q))

calculate_loss(losses) ==
    IF losses = <<>> THEN None ELSE Some(Frac(SumSeq(losses), Len(losses)))

-----------------------------------------------------------------------------
(* ClassificationMetricReporter.add_batch_stats *)

\* scores kept whatever the mode
aggregate_scores_always(mem, all, scores) == aggregate_data(all, scores)

\* scores never kept
aggregate_scores_never(mem, all, scores) == all

\* if not self.is_memory_efficient: self.aggregate_scores(scores)
aggregate_scores(mem, all, scores) ==
    IF ~mem THEN aggregate_data(all, scores) ELSE all

\* the loop over context.items()
aggregate_context(all, context) ==
    LET lists == {key \in DOMAIN context : context[key].is_list}
    IN  [key \in DOMAIN all \cup lists |->
            aggregate_data(IF key \in DOMAIN all THEN all[key] ELSE <<>>,
                           IF key \in lists THEN context[key].val ELSE <<>>)]

\* if loss is not None: self.all_loss.append(float(loss))
aggregate_loss(all, loss) == IF loss # None THEN Append(all, loss[1]) ELSE all

\* itertools.tee(iterable, n): a tuple of n iterators
tee(iterable, n) == [i \in 1..n |-> iterable]

\* the entry appended to self.batch_size
BatchSizeOf(m_input) ==
    IF m_input.generator
    THEN Len(tee(m_input, 1))
    ELSE m_input.first_len

-----------------------------------------------------------------------------
(* TopKClassificationMetricReporter.aggregate_topkpreds *)

\* torch.topk(row, k).indices: the indices of the k highest scores,
\* highest first
TopKIndices(row, k) ==
    LET Before(i, j) == row[i] > row[j] \/ (row[i] = row[j] /\ i < j)
        Rank(i) == 1 + Cardinality({j \in DOMAIN row : Before(j, i)})
    IN  [p \in 1..k |-> CHOOSE i \in DOMAIN row : Rank(i) = p]

\* the top-k lists of the batch replace the accumulated ones
aggregate_topkpreds_overwrite(all, batch_scores, k) ==
    [i \in DOMAIN batch_scores |-> TopKIndices(batch_scores[i], k)]

aggregate_topkpreds(all, batch_scores, k) ==
    aggregate_data(all, [i \in DOMAIN batch_scores |-> TopKIndices(batch_scores[i], k)])

-----------------------------------------------------------------------------
(* The state after a batch, as a record, so that a pass can be replayed *)

Accumulated ==
    [n_batches |-> n_batches, all_preds |-> all_preds, all_targets |-> all_targets,
     all_scores |-> all_scores, all_topk_preds |-> all_topk_preds,
     all_loss |-> all_loss, batch_size |-> batch_size, all_context |-> all_context]

\* MetricReporter._reset and TopKClassificationMetricReporter._reset
ResetState ==
    [n_batches |-> 0, all_preds |-> <<>>, all_targets |-> <<>>,
     all_scores |-> <<>>, all_topk_preds |-> <<>>,
     all_loss |-> <<>>, batch_size |-> <<>>, all_context |-> EmptyMap]

\* ClassificationMetricReporter.add_batch_stats, and for the top-k reporter
\* TopKClassificationMetricReporter.add_batch_stats
add_batch_stats(a, k, mem, topkval, n, b) ==
    [n_batches |-> n,
     all_preds |-> aggregate_data(a.all_preds, b.preds),
     all_targets |-> aggregate_data(a.all_targets, b.targets),
     all_scores |-> aggregate_scores(mem, a.all_scores, b.scores),
     all_context |-> aggregate_context(a.all_context, b.context),
     all_loss |-> aggregate_loss(a.all_loss, b.loss),
     batch_size |-> Append(a.batch_size, BatchSizeOf(b.m_input)),
     all_topk_preds |->
        IF k = "topk"
        THEN aggregate_topkpreds(a.all_topk_preds, b.scores, topkval)
        ELSE a.all_topk_preds]

SetAccumulated(a) ==
    /\ n_batches' = a.n_batches
    /\ all_preds' = a.all_preds
    /\ all_targets' = a.all_targets
    /\ all_scores' = a.all_scores
    /\ all_topk_preds' = a.all_topk_preds
    /\ all_loss' = a.all_loss
    /\ batch_size' = a.batch_size
    /\ all_context' = a.all_context

ExamplesFed == Len(all_preds)

AddBatchStatsCall(b) ==
    /\ pc = "ready"
    /\ SetAccumulated(add_batch_stats(Accumulated, kind, is_memory_efficient,
                                      topk, Len(fed) + 1, b))
    /\ fed' = Append(fed, b)
    /\ handed' = <<>>
    /\ report' = NoReport
    /\ UNCHANGED <<reporterVars, predictions, selected>>

\* whether m_input is a generator is the data pipeline's choice, one for
\* the batches of a pass
GeneratorChoices ==
    IF fed = <<>> THEN BOOLEAN ELSE {fed[1].m_input.generator}

AddBatchStats ==
    /\ Len(fed) < MaxBatches
    /\ \E n \in 0..(MaxExamples - ExamplesFed) :
         \E es \in [1..n -> Examples], l \in LossChoices, g \in GeneratorChoices :
            AddBatchStatsCall(MakeBatch(kind, es, l, g))

Reset ==
    /\ pc = "ready"
    /\ fed # <<>>
    /\ SetAccumulated(ResetState)
    /\ fed' = <<>>
    /\ handed' = <<>>
    /\ report' = NoReport
    /\ UNCHANGED <<reporterVars, predictions, selected>>

-----------------------------------------------------------------------------
(* calculate_metric of the three reporters *)

Max3(x, y, z) ==
    LET m == IF x >= y THEN x ELSE y IN IF m >= z THEN m ELSE z

Min3(x, y, z) ==
    LET m == IF x <= y THEN x ELSE y IN IF m <= z THEN m ELSE z

\* element i of q, or the fillvalue [] past its end
At(q, i) == IF i <= Len(q) THEN q[i] ELSE <<>>

\* zip_longest(a, b, c, fillvalue=[])
zip_longest(a, b, c) ==
    [i \in 1..Max3(Len(a), Len(b), Len(c)) |-> <<At(a, i), At(b, i), At(c, i)>>]

\* zip(a, b, c): stops at the shortest
zip(a, b, c) ==
    [i \in 1..Min3(Len(a), Len(b), Len(c)) |-> <<a[i], b[i], c[i]>>]

\* [LabelPrediction(scores, pred, expect) for ... in zip_longest(...)]
LabelPredictions(a) ==
    LET z == zip_longest(a.all_scores, a.all_preds, a.all_targets)
    IN  [i \in DOMAIN z |->
            [scores |-> z[i][1], predicted |-> z[i][2], expected |-> z[i][3]]]

\* [LabelListPrediction(scores, pred, expect) for ... in zip(...)]
LabelListPredictions(a) ==
    LET z == zip(a.all_scores, a.all_preds, a.all_targets)
    IN  [i \in DOMAIN z |->
            [scores |-> z[i][1], predicted |-> z[i][2], expected |-> z[i][3]]]

\* [LabelTopKPrediction(scores, pred, expect) for ... in zip_longest(...)]
TopKLabelPredictions(a) ==
    LET z == zip_longest(a.all_scores, a.all_topk_preds, a.all_targets)
    IN  [i \in DOMAIN z |->
            [scores |-> z[i][1], topk |-> z[i][2], label |-> z[i][3]]]

\* pytext.metrics: the soft score of a label, kept as the (score, is expected)
\* pairs it is computed from
SoftScores(preds, names, l) ==
    LET idx == CHOOSE i \in DOMAIN names : names[i] = l
        over == [i \in DOMAIN preds |->
                    <<preds[i].scores[idx], names[preds[i].expected] = l>>]
    IN  [average_precision |-> Some([ap_over |-> over]),
         roc_auc |-> Some([auc_over |-> over])]

RECURSIVE SingleLoop(_, _, _, _)
SingleLoop(preds, names, i, acc) ==
    IF i > Len(preds) THEN acc
    ELSE LET p == preds[i]
             next ==
                IF p.predicted = p.expected
                THEN [acc EXCEPT !.num_correct = @ + 1,
                                 !.conf = Update(@, names[p.expected], "TP", 1)]
                ELSE [acc EXCEPT !.conf =
                        Update(Update(@, names[p.expected], "FN", 1),
                               names[p.predicted], "FP", 1)]
         IN  SingleLoop(preds, names, i + 1, next)

\* pytext.metrics.compute_classification_metrics
compute_classification_metrics(preds, names, loss, average_precisions) ==
    LET r == SingleLoop(preds, names, 1, LoopStart)
        NameSet == {names[i] : i \in DOMAIN names}
        binary == average_precisions /\ Len(names) = 2
    IN  [status |-> "ok",
         accuracy |-> safe_division(r.num_correct, Len(preds)),
         macro_prf1_metrics |-> compute_metrics(r.conf),
         per_label_soft_scores |->
            IF average_precisions
            THEN [l \in NameSet |-> SoftScores(preds, names, l)]
            ELSE EmptyMap,
         mcc |-> IF binary THEN Some([mcc_over |-> preds]) ELSE None,
         roc_auc |-> IF binary THEN Some([auc_over |-> preds]) ELSE None,
         loss |-> loss]

\* the confusions one multi-label example adds: a label in both sets is a TP,
\* a label only predicted an FP, a label only expected an FN
RECURSIVE MultiExample(_, _, _, _)
MultiExample(conf, p, names, i) ==
    IF i > Len(names) THEN conf
    ELSE LET predicted == i <= Len(p.predicted) /\ p.predicted[i] = 1
             expected == \E j \in DOMAIN p.expected : p.expected[j] = i
             next == IF predicted /\ expected THEN Update(conf, names[i], "TP", 1)
                     ELSE IF predicted THEN Update(conf, names[i], "FP", 1)
                     ELSE IF expected THEN Update(conf, names[i], "FN", 1)
                     ELSE conf
         IN  MultiExample(next, p, names, i + 1)

RECURSIVE MultiLoop(_, _, _, _)
MultiLoop(preds, names, i, conf) ==
    IF i > Len(preds) THEN conf
    ELSE MultiLoop(preds, names, i + 1, MultiExample(conf, preds[i], names, 1))

\* pytext.metrics.compute_multi_label_classification_metrics (the spec
\* defines no multi-label accuracy: the report of the model has none)
compute_multi_label_classification_metrics(preds, names, loss, average_precisions) ==
    [status |-> "ok",
     macro_prf1_metrics |-> compute_metrics(MultiLoop(preds, names, 1, EmptyMap)),
     per_label_soft_scores |->
        IF average_precisions
        THEN [l \in {names[i] : i \in DOMAIN names} |->
                [average_precision |->
                    Some([ap_over |-> [i \in DOMAIN preds |-> preds[i].scores]])]]
        ELSE EmptyMap,
     mcc |-> None,
     roc_auc |-> None,
     loss |-> loss]

\* predictions_to_report and targets_to_report of the single-label and top-k
\* reporters: the label name of each accumulated index
predictions_to_report(a, names) == [i \in DOMAIN a.all_preds |-> names[a.all_preds[i]]]

targets_to_report(a, names) == [i \in DOMAIN a.all_targets |-> names[a.all_targets[i]]]

\* the list each calculate_metric hands to its metric computation
HandedBy(k, a) ==
    IF k = "single" THEN LabelPredictions(a)
    ELSE IF k = "multi" THEN LabelListPredictions(a)
    ELSE TopKLabelPredictions(a)

\* calculate_metric of the reporter of kind k over the accumulation a
calculate_metric(k, a, names, mem) ==
    IF k = "single"
    THEN compute_classification_metrics(
            LabelPredictions(a), names, calculate_loss(a.all_loss), ~mem)
    ELSE IF k = "multi"
    THEN compute_multi_label_classification_metrics(
            LabelListPredictions(a), names, calculate_loss(a.all_loss), ~mem)
    ELSE compute_topk_classification_metrics(
            TopKLabelPredictions(a), names, calculate_loss(a.all_loss))

\* a calculate_metric that empties the score buffer it has read
CalculateMetric_draining ==
    /\ pc = "ready"
    /\ handed' = HandedBy(kind, Accumulated)
    /\ report' = calculate_metric(kind, Accumulated, label_names, is_memory_efficient)
    /\ all_scores' = <<>>
    /\ UNCHANGED <<reporterVars, n_batches, all_preds, all_targets, all_topk_preds,
                   all_loss, batch_size, all_context, fed, predictions, selected>>

CalculateMetric ==
    /\ pc = "ready"
    /\ handed' = HandedBy(kind, Accumulated)
    /\ report' = calculate_metric(kind, Accumulated, label_names, is_memory_efficient)
    /\ UNCHANGED <<reporterVars, accumVars, fed, predictions, selected>>

-----------------------------------------------------------------------------
(* A reporter over one evaluation pass after another *)

Kinds == {"single", "multi", "topk"}

TopKDefault == 3

TopKChoices == 1..TopKDefault

Init ==
    /\ pc = "ready"
    /\ config = None
    /\ kind \in Kinds
    /\ label_names = LabelCatalogue
    /\ model_select_metric = ACCURACY
    /\ target_label = None
    /\ is_memory_efficient \in BOOLEAN
    /\ topk \in IF kind = "topk" THEN TopKChoices ELSE {0}
    /\ EmptyAccumulation
    /\ predictions = <<>>
    /\ handed = <<>>
    /\ report = NoReport
    /\ selected = NoSelection

Next == AddBatchStats \/ CalculateMetric \/ Reset

Spec == Init /\ [][Next]_vars

\* The passes of a top-k reporter whose every batch has a loss and a tuple
\* m_input: the batches differ in their examples only.
InitTopKReporter == Init /\ kind = "topk"

AddBatchStatsTopK ==
    /\ Len(fed) < MaxBatches
    /\ \E n \in 0..(MaxExamples - ExamplesFed) :
         \E es \in [1..n -> Examples] :
            AddBatchStatsCall(MakeBatch(kind, es, Some(2), FALSE))

NextTopKReporter == AddBatchStatsTopK \/ CalculateMetric \/ Reset

SpecTopKReporter == InitTopKReporter /\ [][NextTopKReporter]_vars

-----------------------------------------------------------------------------
(* Properties of compute_topk_classification_metrics *)

\* the expected index occurs at some position of the top-k list
Occurs(p) == \E j \in DOMAIN p.topk : p.topk[j] = p.label

\* the count the report holds for a label and a field, 0 for a label without entry
Counted(r, l, field) ==
    IF l \in DOMAIN r.macro_prf1_metrics.per_label_scores
    THEN r.macro_prf1_metrics.per_label_scores[l][field]
    ELSE 0

RECURSIVE Total(_, _, _)
Total(r, S, field) ==
    IF S = {} THEN 0
    ELSE LET l == CHOOSE x \in S : TRUE
         IN  Counted(r, l, field) + Total(r, S \ {l}, field)

CatalogueNames == {LabelCatalogue[i] : i \in DOMAIN LabelCatalogue}

\* C2: in compute_topk_classification_metrics every example is counted
\* correct (one TP on its expected label, one more in the numerator of the
\* accuracy) iff its expected label occurs at any position of its top-k list;
\* otherwise it adds exactly one FN on the expected label and exactly one FP
\* on the first element of its top-k list, and nothing for the other
\* elements.  (A miss with an empty top-k list has no first element: the call
\* raises, and only then.)
C2_TopkAttribution ==
    LET N == Len(predictions)
        hits == {i \in 1..N : Occurs(predictions[i])}
        misses == (1..N) \ hits
    IN  /\ report.status = "fault" =>
            \E i \in misses : Len(predictions[i].topk) = 0
        /\ report.status = "ok" =>
            /\ \A i \in misses : Len(predictions[i].topk) > 0
            /\ N > 0 => report.accuracy.num = Cardinality(hits)
            /\ DOMAIN report.macro_prf1_metrics.per_label_scores \subseteq CatalogueNames
            /\ \A l \in CatalogueNames :
                 /\ Counted(report, l, "true_positives") =
                      Cardinality({i \in hits : label_names[predictions[i].label] = l})
                 /\ Counted(report, l, "false_negatives") =
                      Cardinality({i \in misses : label_names[predictions[i].label] = l})
                 /\ Counted(report, l, "false_positives") =
                      Cardinality({i \in misses : label_names[predictions[i].topk[1]] = l})

\* a report over a hit at the second position of a top-k list and a miss
\* whose top-k list has two elements
C2_Witness ==
    /\ report.status = "ok"
    /\ \E i \in DOMAIN predictions :
         /\ Len(predictions[i].topk) = 2
         /\ predictions[i].topk[2] = predictions[i].label
         /\ predictions[i].topk[1] # predictions[i].label
    /\ \E i \in DOMAIN predictions :
         /\ Len(predictions[i].topk) = 2
         /\ ~Occurs(predictions[i])
         /\ predictions[i].topk[1] # predictions[i].topk[2]

\* C10: count conservation.  For N predictions with non-empty top-k lists the
\* call returns; over all labels TP + FN = N, FP = FN = N - num_correct and
\* TP = num_correct; the accuracy is num_correct / N, within [0, 1], when
\* N > 0 and is 0 when N = 0.
C10_CountConservation ==
    LET N == Len(predictions)
        TP == Total(report, CatalogueNames, "true_positives")
        FP == Total(report, CatalogueNames, "false_positives")
        FN == Total(report, CatalogueNames, "false_negatives")
    IN  (report # NoReport /\ \A i \in 1..N : Len(predictions[i].topk) > 0) =>
            /\ report.status = "ok"
            /\ TP + FN = N
            /\ FP = FN
            /\ N > 0 => /\ report.accuracy.den = N
                        /\ report.accuracy.num = TP
                        /\ FN = N - report.accuracy.num
                        /\ 0 <= report.accuracy.num
                        /\ report.accuracy.num <= report.accuracy.den
            /\ N = 0 => report.accuracy = Frac(0, 1)

\* a report over at least two predictions, one a hit and one a miss
C10_Witness ==
    /\ report.status = "ok"
    /\ Len(predictions) >= 2
    /\ \A i \in DOMAIN predictions : Len(predictions[i].topk) > 0
    /\ \E i \in DOMAIN predictions : Occurs(predictions[i])
    /\ \E i \in DOMAIN predictions : ~Occurs(predictions[i])

\* the empty prediction list: accuracy 0 with no fault
C10_EmptyWitness == report.status = "ok" /\ Len(predictions) = 0

-----------------------------------------------------------------------------
(* Properties of the accumulation *)

\* the rows of one field of the batches fed so far, in feeding order
RECURSIVE Flat(_, _)
Flat(batches, field) ==
    IF batches = <<>> THEN <<>>
    ELSE Head(batches)[field] \o Flat(Tail(batches), field)

\* C1 as stated: after every add_batch_stats call since the last reset, for
\* either value of is_memory_efficient, all_preds, all_targets and all_scores
\* have equal length and position i of each is the same example.
C1_AlignedAllThree ==
    /\ Len(all_preds) = Len(all_targets)
    /\ Len(all_targets) = Len(all_scores)
    /\ all_preds = Flat(fed, "preds")
    /\ all_targets = Flat(fed, "targets")
    /\ all_scores = Flat(fed, "scores")

\* C1 amended: all_preds and all_targets have equal length and position i of
\* each is example i of the pass; all_scores is aligned with them when
\* is_memory_efficient is false and is empty when it is true.
C1_AlignedUnlessMemoryEfficient ==
    /\ Len(all_preds) = Len(all_targets)
    /\ all_preds = Flat(fed, "preds")
    /\ all_targets = Flat(fed, "targets")
    /\ ~is_memory_efficient =>
         Len(all_scores) = Len(all_preds) /\ all_scores = Flat(fed, "scores")
    /\ is_memory_efficient => all_scores = <<>>

\* two non-empty batches accumulated by a memory-efficient reporter
C1_Witness ==
    /\ Len(fed) = 2
    /\ fed[1].preds # <<>>
    /\ fed[2].preds # <<>>
    /\ fed[1].scores # fed[2].scores
    /\ is_memory_efficient

\* C5: with is_memory_efficient true, add_batch_stats leaves all_scores
\* unchanged, and empty for the whole pass; with it false, each call extends
\* all_scores by exactly the rows of the batch's score matrix.
C5_ScoresOnlyWhenNotMemoryEfficient ==
    [][Len(fed') = Len(fed) + 1 =>
        LET b == fed'[Len(fed')]
        IN  IF is_memory_efficient
            THEN all_scores' = all_scores /\ all_scores' = <<>>
            ELSE all_scores' = all_scores \o b.scores]_vars

\* a memory-efficient reporter that has been fed a non-empty score matrix
C5_Witness ==
    /\ is_memory_efficient
    /\ fed # <<>>
    /\ fed[Len(fed)].scores # <<>>

\* C6: calculate_metric of the three reporters changes none of all_preds,
\* all_targets, all_scores, all_topk_preds, all_loss, batch_size, all_context,
\* and a second call with no add_batch_stats or reset in between returns the
\* report of the first.
C6_CalculateMetricReadOnly ==
    [][report' # NoReport =>
        /\ UNCHANGED accumVars
        /\ report # NoReport => report' = report]_vars

\* a report over a pass that has examples, losses and context
C6_Witness ==
    /\ report.status = "ok"
    /\ Len(all_preds) >= 2
    /\ all_loss # <<>>
    /\ DOMAIN all_context # {}

\* the accumulation after feeding the batches in the given order
RECURSIVE Replay(_, _, _, _, _, _)
Replay(a, k, mem, topkval, batches, i) ==
    IF i > Len(batches) THEN a
    ELSE Replay(add_batch_stats(a, k, mem, topkval, i, batches[i]),
                k, mem, topkval, batches, i + 1)

\* the accumulation of the top-k reporter after the batches of the pass fed
\* in the order perm
PassInOrder(perm) ==
    Replay(ResetState, "topk", is_memory_efficient, topk,
           [i \in DOMAIN fed |-> fed[perm[i]]], 1)

\* how often x occurs in the sequence q
Occurrences(q, x) == Cardinality({i \in DOMAIN q : q[i] = x})

\* q and r hold the same elements, each as often
SameUpToOrder(q, r) ==
    /\ Len(q) = Len(r)
    /\ \A i \in DOMAIN q : Occurrences(q, q[i]) = Occurrences(r, q[i])

\* C7: for the top-k reporter, the batches of a pass fed in any other order
\* give the same accuracy and the same per-label TP/FP/FN counts, hence the
\* same per-label and macro precision, recall and F1; the projected
\* predictions and targets are the same up to their order.
C7_OrderIndependent ==
    (kind = "topk" /\ report # NoReport) =>
        \A perm \in Permutations(DOMAIN fed) :
            LET pass == PassInOrder(perm)
                other == calculate_metric("topk", pass, label_names, is_memory_efficient)
                preds_there == predictions_to_report(pass, label_names)
                preds_here == predictions_to_report(Accumulated, label_names)
                targets_there == targets_to_report(pass, label_names)
                targets_here == targets_to_report(Accumulated, label_names)
            IN  /\ other.status = report.status
                /\ report.status = "ok" =>
                    /\ other.accuracy = report.accuracy
                    /\ other.macro_prf1_metrics = report.macro_prf1_metrics
                /\ SameUpToOrder(preds_there, preds_here)
                /\ SameUpToOrder(targets_there, targets_here)

\* a top-k report over two different batches, one example a hit and one a miss
C7_Witness ==
    /\ kind = "topk"
    /\ report.status = "ok"
    /\ Len(fed) = 2
    /\ fed[1].targets # <<>>
    /\ fed[2].targets # <<>>
    /\ fed[1].targets # fed[2].targets
    /\ report.accuracy.num = 1
    /\ report.accuracy.den = 2

\* C8 as stated: every add_batch_stats call appends exactly one entry to
\* batch_size, the number of examples of the batch, whether m_input is a
\* tuple of tensors or a generator.
C8_BatchSizeTrace ==
    /\ Len(batch_size) = Len(fed)
    /\ \A i \in DOMAIN fed : batch_size[i] = Len(fed[i].preds)

\* C9 as stated: in the multi-label reporter calculate_metric hands the
\* metric computation one LabelListPrediction per accumulated example, in
\* accumulation order, for both values of is_memory_efficient.
C9_MultiLabelOnePerExample ==
    (kind = "multi" /\ report # NoReport) =>
        /\ Len(handed) = Len(all_preds)
        /\ Len(all_preds) = Len(all_targets)
        /\ \A i \in DOMAIN handed :
             /\ handed[i].predicted = all_preds[i]
             /\ handed[i].expected = all_targets[i]

-----------------------------------------------------------------------------
(* from_config_and_label_names and get_model_select_metric *)

NameSet(names) == {names[i] : i \in DOMAIN names}

\* the target label need only be set, not be one of the labels
ConfigAccepted_any_target(cfg, names) ==
    /\ cfg.model_select_metric \in {LABEL_F1, LABEL_AVG_PRECISION, LABEL_ROC_AUC} =>
         cfg.target_label # None
    /\ cfg.model_select_metric \in {ROC_AUC, MCC} => Len(names) = 2

\* the assertions of from_config_and_label_names all pass
ConfigAccepted(cfg, names) ==
    /\ cfg.model_select_metric \in {LABEL_F1, LABEL_AVG_PRECISION, LABEL_ROC_AUC} =>
         /\ cfg.target_label # None
         /\ cfg.target_label[1] \in NameSet(names)
    /\ cfg.model_select_metric \in {ROC_AUC, MCC} => Len(names) = 2

\* the label lists and configurations handed to from_config_and_label_names
LabelLists == {SubSeq(LabelCatalogue, 1, n) : n \in 1..Len(LabelCatalogue)}

TargetLabels == {None} \cup {Some(l) : l \in NameSet(LabelCatalogue)}

Configs ==
    [model_select_metric : ComparableClassificationMetric,
     target_label : TargetLabels,
     is_memory_efficient : BOOLEAN]

Unset == "unset"

FromConfigAndLabelNames ==
    /\ pc = "config"
    /\ LET cfg == config[1].config
           names == config[1].label_names
       IN  IF ConfigAccepted(cfg, names)
           THEN /\ pc' = "ready"
                /\ label_names' = names
                /\ model_select_metric' = cfg.model_select_metric
                /\ target_label' = cfg.target_label
                /\ is_memory_efficient' = cfg.is_memory_efficient
           ELSE /\ pc' = "config_error"
                /\ UNCHANGED <<label_names, model_select_metric, target_label,
                               is_memory_efficient>>
    /\ UNCHANGED <<config, kind, topk, accumVars, fed, predictions, handed,
                   report, selected>>

Faulted(via) == [status |-> "fault", via |-> via]

Returned(v, via) == [status |-> "ok", value |-> v, via |-> via]

\* the value the metric identifier resolves to in the report: <<"KeyError">>
\* or <<"TypeError">> when resolving it raises, else <<"value", Optional>>
Resolve(metric, target, m) ==
    LET label == IF target = None THEN Unset ELSE target[1]
    IN  CASE metric = ACCURACY -> <<"value", Some(m.accuracy)>>
          [] metric = ROC_AUC -> <<"value", m.roc_auc>>
          [] metric = MCC -> <<"value", m.mcc>>
          [] metric = MACRO_F1 ->
                <<"value", Some(m.macro_prf1_metrics.macro_scores.f1)>>
          [] metric = LABEL_F1 ->
                IF label \in DOMAIN m.macro_prf1_metrics.per_label_scores
                THEN <<"value", Some(m.macro_prf1_metrics.per_label_scores[label].f1)>>
                ELSE <<"KeyError">>
          [] metric = LABEL_AVG_PRECISION ->
                IF label \in DOMAIN m.per_label_soft_scores
                THEN <<"value", m.per_label_soft_scores[label].average_precision>>
                ELSE <<"KeyError">>
          [] metric = LABEL_ROC_AUC ->
                IF label \in DOMAIN m.per_label_soft_scores
                THEN <<"value", m.per_label_soft_scores[label].roc_auc>>
                ELSE <<"KeyError">>
          [] metric = NEGATIVE_LOSS ->
                IF m.loss = None THEN <<"TypeError">>
                ELSE <<"value", Some(Frac(0 - m.loss[1].num, m.loss[1].den))>>

\* the extraction without its final assertion
get_model_select_metric_unchecked(metric, target, m, via) ==
    LET r == Resolve(metric, target, m)
    IN  IF r[1] # "value" THEN Faulted(via) ELSE Returned(r[2], via)

\* ClassificationMetricReporter.get_model_select_metric
get_model_select_metric(metric, target, m, via) ==
    LET r == Resolve(metric, target, m)
    IN  IF r[1] # "value" THEN Faulted(via)
        ELSE IF r[2] = None THEN Faulted(via)   \* assert metric is not None
        ELSE Returned(r[2], via)

\* reports of any shape a caller may hand to get_model_select_metric
SampleConfusions ==
    {EmptyMap,
     [l \in {"a"} |-> [TP |-> 1, FP |-> 0, FN |-> 1]],
     [l \in {"a", "b"} |-> [TP |-> 1, FP |-> 1, FN |-> 0]]}

SampleSoftScores ==
    {EmptyMap,
     [l \in {"a"} |-> [average_precision |-> Some(Frac(1, 3)), roc_auc |-> None]],
     [l \in {"a", "b"} |->
        [average_precision |-> Some(Frac(2, 3)), roc_auc |-> Some(Frac(3, 4))]]}

SampleReports ==
    {[status |-> "ok",
      accuracy |-> Frac(1, 2),
      macro_prf1_metrics |-> compute_metrics(c),
      per_label_soft_scores |-> s,
      mcc |-> mc,
      roc_auc |-> auc,
      loss |-> l] :
        c \in SampleConfusions, s \in SampleSoftScores,
        mc \in {None, Some(Frac(1, 4))}, auc \in {None, Some(Frac(3, 4))},
        l \in {None, Some(Frac(2, 5))}}

\* prediction lists with valid indices and non-empty top-k lists
ValidPredictionLists(names) ==
    LET idx == DOMAIN names
        lists == {<<i>> : i \in idx} \cup {<<i, j>> : i, j \in idx}
        one == [scores : {<<>>}, topk : lists, label : idx]
    IN  {<<>>} \cup {<<p>> : p \in one}

GetModelSelectMetricOfSample ==
    /\ pc = "ready"
    /\ selected = NoSelection
    /\ \E m \in SampleReports :
         /\ report' = m
         /\ selected' = get_model_select_metric(model_select_metric, target_label,
                                                m, "caller")
    /\ predictions' = <<>>
    /\ UNCHANGED <<reporterVars, accumVars, fed, handed>>

GetModelSelectMetricOfTopK ==
    /\ pc = "ready"
    /\ selected = NoSelection
    /\ \E p \in ValidPredictionLists(label_names), l \in {None, Some(Frac(2, 5))} :
         LET m == compute_topk_classification_metrics(p, label_names, l)
         IN  /\ predictions' = p
             /\ report' = m
             /\ selected' = get_model_select_metric(model_select_metric,
                                                    target_label, m, "topk")
    /\ UNCHANGED <<reporterVars, accumVars, fed, handed>>

InitSelect ==
    /\ pc = "config"
    /\ config \in {Some([config |-> c, label_names |-> n]) :
                        c \in Configs, n \in LabelLists}
    /\ kind \in {"single", "topk"}
    /\ label_names = <<>>
    /\ model_select_metric = Unset
    /\ target_label = None
    /\ is_memory_efficient = FALSE
    /\ topk = IF kind = "topk" THEN TopKDefault ELSE 0
    /\ EmptyAccumulation
    /\ predictions = <<>>
    /\ handed = <<>>
    /\ report = NoReport
    /\ selected = NoSelection

NextSelect ==
    \/ FromConfigAndLabelNames
    \/ GetModelSelectMetricOfSample
    \/ GetModelSelectMetricOfTopK

SpecSelect == InitSelect /\ [][NextSelect]_vars

\* C3: from_config_and_label_names fails, with no reporter constructed, when
\* model_select_metric is label_f1, label_avg_precision or label_roc_auc and
\* target_label is unset or not one of label_names, and when it is roc_auc or
\* mcc and label_names has not exactly two entries; otherwise it returns a
\* reporter (with the configuration's fields).
C3_ConfigValidation ==
    LET cfg == config[1].config
        names == config[1].label_names
        needs_target ==
            cfg.model_select_metric \in {LABEL_F1, LABEL_AVG_PRECISION, LABEL_ROC_AUC}
        bad_target ==
            \/ cfg.target_label = None
            \/ \A i \in DOMAIN names : cfg.target_label # Some(names[i])
        needs_binary == cfg.model_select_metric \in {ROC_AUC, MCC}
        must_fail == (needs_target /\ bad_target) \/ (needs_binary /\ Len(names) # 2)
    IN  (config # None /\ pc # "config") =>
            /\ must_fail <=> pc = "config_error"
            /\ ~must_fail <=> pc = "ready"
            /\ pc = "config_error" =>
                 label_names = <<>> /\ model_select_metric = Unset
            /\ pc = "ready" =>
                 /\ label_names = names
                 /\ model_select_metric = cfg.model_select_metric
                 /\ target_label = cfg.target_label
                 /\ is_memory_efficient = cfg.is_memory_efficient

\* a configuration refused because its target label, though set, is not one
\* of the labels
C3_Witness ==
    /\ pc = "config_error"
    /\ config[1].config.model_select_metric = LABEL_F1
    /\ config[1].config.target_label = Some("c")
    /\ config[1].label_names = <<"a", "b">>

\* the field of the report the metric identifier resolves to is absent
Absent(metric, target, m) ==
    \/ metric = ROC_AUC /\ m.roc_auc = None
    \/ metric = MCC /\ m.mcc = None
    \/ /\ metric = LABEL_F1
       /\ \A l \in DOMAIN m.macro_prf1_metrics.per_label_scores : target # Some(l)
    \/ /\ metric \in {LABEL_AVG_PRECISION, LABEL_ROC_AUC}
       /\ \A l \in DOMAIN m.per_label_soft_scores : target # Some(l)
    \/ /\ metric = LABEL_AVG_PRECISION
       /\ \E l \in DOMAIN m.per_label_soft_scores :
            target = Some(l) /\ m.per_label_soft_scores[l].average_precision = None
    \/ /\ metric = LABEL_ROC_AUC
       /\ \E l \in DOMAIN m.per_label_soft_scores :
            target = Some(l) /\ m.per_label_soft_scores[l].roc_auc = None
    \/ metric = NEGATIVE_LOSS /\ m.loss = None

\* C4: get_model_select_metric never returns an absent value: when the field
\* the metric identifier resolves to is absent from the report the call
\* faults; on every report of compute_topk_classification_metrics the
\* extraction of roc_auc, mcc, label_avg_precision and label_roc_auc faults.
C4_NoAbsentValue ==
    selected # NoSelection =>
        /\ selected.status = "ok" => Len(selected.value) = 1
        /\ Absent(model_select_metric, target_label, report) =>
             selected.status = "fault"
        /\ (selected.via = "topk" /\
            model_select_metric \in {ROC_AUC, MCC, LABEL_AVG_PRECISION, LABEL_ROC_AUC}) =>
             selected.status = "fault"

\* roc_auc asked of a report of compute_topk_classification_metrics over one
\* prediction
C4_Witness ==
    /\ selected.status = "fault"
    /\ selected.via = "topk"
    /\ model_select_metric = ROC_AUC
    /\ Len(predictions) = 1
    /\ report.status = "ok"

====
